---- MODULE Spec2Model ----
(***************************************************************************)
(* Verification model of the synchronized multi-video playback session of  *)
(* frontend/src/App.tsx: one <video> handle per filter, an autoplay effect *)
(* that runs once on mount, a sync effect that subscribes syncVideos to    *)
(* the media events of the active handle, and the handlers that change     *)
(* the selected filter and the video identity.                             *)
(*                                                                         *)
(* Time is counted in steps of 0.2 s, so the 0.2 s drift threshold of       *)
(* syncVideos is 1: a drift of 0 is below it, a drift of 1 is exactly the  *)
(* threshold and a drift of 2 or more is beyond it.  The modelled horizon  *)
(* MaxTime lies before the end of the media: the `ended` transition of a   *)
(* handle is not part of the model.                                        *)
(*                                                                         *)
(* Further components, each with a specification of its own: applyFilter   *)
(* of the canvas player (FilterSpec), its loadMask cache and render loop   *)
(* (MaskSpec), and the server's cache manager and batch pipeline as the    *)
(* specification describes them (CacheSpec).                               *)
(***************************************************************************)
EXTENDS Integers, Sequences, FiniteSets, TLC

\* ------------------------------------------------------------------ bounds
\* Horizon of the playback clock, in steps of 0.2 s.
MaxTime == 2

\* Number of filters of the list that get a handle in the model.
NumFilters == 3

\* ------------------------------------------------------- program constants
\* App.tsx:53-58, the memoised filter list (filter.value of each entry).
AllFilters == <<"none", "grayscale", "sepia", "rio">>

\* The handles of the model: the first NumFilters entries of the list.
Filters == SubSeq(AllFilters, 1, NumFilters)

Handles == {Filters[i] : i \in 1..Len(Filters)}

\* App.tsx:649, videoRefs.current[filter.value] = el: after the first commit
\* every filter of the list has a mounted element.
VideoRefs == Handles

\* App.tsx:105, `timeDiff > 0.2`, in steps of 0.2 s.
DriftThreshold == 1

\* Video identities: consts.ts:9 (the default) and one identity a URL
\* submission or an upload can set.
VideoUrls == {"default", "submitted"}

NoHandle == "-"

Abs(x) == IF x < 0 THEN -x ELSE x

VARIABLES
    selectedFilter,  \* App.tsx:28  useState<FilterType>('none')
    videoUrl,        \* App.tsx:41  useState(defaultVideoUrl)
    dom,             \* committed attributes of each <video> (App.tsx:646-660)
    time,            \* currentTime of each handle
    paused,          \* paused flag of each handle
    listening,       \* handle that carries the syncVideos listeners
    pendingEvent,    \* a timeupdate/play/pause/seeked event of the listening
                     \* handle is queued and not yet dispatched
    autoplayTimer,   \* the setTimeout(playAllVideos, 500) has not fired yet
    passOf,          \* authority handle of the pass the last step ran
    requested,       \* handles on which the last step called play()
    rejected,        \* handles whose play() promise the last step saw rejected
    seeked           \* handles whose currentTime the last step assigned

vars == <<selectedFilter, videoUrl, dom, time, paused, listening, pendingEvent,
          autoplayTimer, passOf, requested, rejected, seeked>>

\* State of the canvas player (CanvasVideoPlayer, src/unnamed/part_003).
VARIABLES
    imageData,       \* part_003:182  the pixels read back from the canvas, RGBA
    mask,            \* part_003:178  the mask of the frame (mask.data, RGBA)
    source,          \* the pixels of the frame as drawn, before any filter ran
    filtered         \* part_003:183  result of applyFilter per filter type

filterVars == <<imageData, mask, source, filtered>>

VARIABLES
    filter,          \* part_003:27   the filter prop
    masksCache,      \* part_003:32   keys of the Map, in insertion order
    videoFrame,      \* part_003:175  Math.floor(video.currentTime * fps)
    canvas,          \* the frame drawn on the canvas and the masks applied to it
    renderPc,        \* position of the render loop
    frameNumber,     \* part_003:175  frame whose mask the render loop awaits
    seekLoads,       \* part_003:224  frames whose mask a seeked handler awaits
    lastMask         \* the loadMask call that returned last: outcome, frame

maskVars == <<filter, masksCache, videoFrame, canvas, renderPc, frameNumber,
              seekLoads, lastMask>>

\* State of the server behind /get-processed-video.
VARIABLES
    entries,         \* state of the cache entry of each (key, filter)
    inFlight,        \* the per-key in-flight lock
    running,         \* pipeline runs in flight, per key
    started,         \* pipeline runs started so far, per key
    failedRuns,      \* pipeline runs that failed so far, per key
    requests,        \* the request of each <video> element: position, key
    observed         \* state of the entry each element was last served from

serverVars == <<entries, inFlight, running, started, failedRuns, requests,
                observed>>

\* derive(identity): one cache key per video identity.
Keys == VideoUrls

\* No request has reached the server and nothing is cached.
NoServer ==
    /\ entries = [k \in Keys |-> [f \in Handles |-> "absent"]]
    /\ inFlight = [k \in Keys |-> FALSE]
    /\ running = [k \in Keys |-> 0]
    /\ started = [k \in Keys |-> 0]
    /\ failedRuns = [k \in Keys |-> 0]
    /\ requests = [f \in Handles |-> [pc |-> "idle", key |-> "default"]]
    /\ observed = [f \in Handles |-> "-"]

\* State of the upload modal of App.tsx.
VARIABLES
    isUploadModalOpen,  \* App.tsx:44
    urlInput,           \* App.tsx:46, the text of the URL field
    isUploading,        \* App.tsx:47
    uploadError,        \* App.tsx:48, a message or "null"
    uploads,            \* files whose POST /upload-video is in flight
    formOp              \* the handler the last step ran, with its argument

formVars == <<isUploadModalOpen, urlInput, isUploading, uploadError, uploads,
              formOp>>

\* The modal as App.tsx:44-48 initialises it.
NoForm ==
    /\ isUploadModalOpen = FALSE
    /\ urlInput = <<>>
    /\ isUploading = FALSE
    /\ uploadError = "null"
    /\ uploads = <<>>
    /\ formOp = <<"-">>

\* The render loops of the canvas player.
VARIABLES
    videoPaused,     \* part_003:167  video.paused
    mediaEvents,     \* play and pause events fired and not yet handled
    renderFrames,    \* renderFrame invocations scheduled or in progress
    composited,      \* part_003:183  filter of the last composite, and the prop
    pausedAwaiting   \* the last pause handled found a renderFrame in loadMask

loopVars == <<videoPaused, mediaEvents, renderFrames, composited,
              pausedAwaiting>>

NoComposite == [used |-> "-", prop |-> "-"]

\* No render loop: the video is paused and nothing is scheduled.
NoLoop ==
    /\ videoPaused = TRUE
    /\ mediaEvents = <<>>
    /\ renderFrames = <<>>
    /\ composited = NoComposite
    /\ pausedAwaiting = FALSE

\* Everything outside the playback session; the session leaves it alone.
playerVars == <<filterVars, maskVars, serverVars, formVars, loopVars>>

\* applyFilter is not running.
NoFrame ==
    /\ imageData = <<>>
    /\ mask = <<>>
    /\ source = <<>>
    /\ filtered = <<>>

\* A canvas nothing has been drawn on.
Blank == [frame |-> 0, applied |-> <<"blank">>]

\* The canvas player is not mounted.
NoMasks ==
    /\ filter = "none"
    /\ masksCache = <<>>
    /\ videoFrame = 0
    /\ canvas = Blank
    /\ renderPc = "unmounted"
    /\ frameNumber = 0
    /\ seekLoads = <<>>
    /\ lastMask = <<"-", 0>>

NoPlayer == NoFrame /\ NoMasks /\ NoServer /\ NoForm /\ NoLoop

\* ------------------------------------------------------------------ render
\* Props whose src names the selected filter: one stream, re-requested on
\* every selection.
VideoPropsSrcOfSelection(f, sel, url) ==
    [controls |-> (sel = f),
     muted    |-> (sel # f),
     display  |-> IF sel = f THEN "block" ELSE "none",
     src      |-> <<url, sel>>]

\* Props that mute no handle.
VideoPropsAllAudible(f, sel, url) ==
    [controls |-> (sel = f),
     muted    |-> FALSE,
     display  |-> IF sel = f THEN "block" ELSE "none",
     src      |-> <<url, f>>]

\* App.tsx:646-660: the props of the <video> of filter f.
VideoProps(f, sel, url) ==
    [controls |-> (sel = f),
     muted    |-> (sel # f),
     display  |-> IF sel = f THEN "block" ELSE "none",
     src      |-> <<url, f>>]

Render(sel, url) == [f \in Handles |-> VideoProps(f, sel, url)]

\* The elements keep their key (filter.value), so a commit only patches the
\* attributes; an element whose src attribute changed runs the media load
\* algorithm: playback position 0, paused.
Reloaded(old, new) == {f \in Handles : old[f].src # new[f].src}

\* A React commit after selectedFilter or videoUrl changed: the attributes are
\* patched and every element whose src changed reloads.
CommitTime(old, new) ==
    [f \in Handles |-> IF f \in Reloaded(old, new) THEN 0 ELSE time[f]]

CommitPaused(old, new) ==
    [f \in Handles |-> IF f \in Reloaded(old, new) THEN TRUE ELSE paused[f]]

\* ---------------------------------------------------------------- autoplay
\* The state a sequence of play()/pause()/seek calls threads through.
Media == [time |-> time, paused |-> paused,
          requested |-> {}, rejected |-> {}, seeked |-> {}]

\* video.play(): the browser either allows it (the handle is no longer paused)
\* or rejects the promise (the handle stays as it was); `allowed` is the
\* browser's answer for this call.
Play(st, f, allowed) ==
    [st EXCEPT !.requested = @ \cup {f},
               !.rejected  = IF allowed THEN @ ELSE @ \cup {f},
               !.paused[f] = IF allowed THEN FALSE ELSE @]

\* The browser's answers to the play() calls of one handler run: it decides,
\* for each paused handle that is asked to play, whether to allow it (autoplay
\* policy, load state).
AllAllowed == [f \in Handles |-> TRUE]

Answer(blocked) == [f \in Handles |-> f \notin blocked]

Asked(st) == {f \in st.requested : paused[f]}

RECURSIVE PlayAllFrom(_, _, _)
RECURSIVE PlayAllAbortOnReject(_, _, _)
RECURSIVE SyncFrom(_, _, _, _, _, _)
RECURSIVE SyncAbortOnReject(_, _, _, _, _, _)

\* A playAllVideos in which a rejected play() escapes its .catch and ends the
\* map over the filters.
PlayAllAbortOnReject(i, st, allowed) ==
    IF i > Len(Filters) THEN st
    ELSE IF Filters[i] \in VideoRefs /\ ~allowed[Filters[i]]
         THEN Play(st, Filters[i], FALSE)
         ELSE PlayAllAbortOnReject(
                  i + 1,
                  IF Filters[i] \in VideoRefs
                     THEN Play(st, Filters[i], allowed[Filters[i]]) ELSE st,
                  allowed)

\* App.tsx:65-78, playAllVideos: filters.map(...) from index i on; every
\* rejection is caught by the .catch of its own promise.
PlayAllFrom(i, st, allowed) ==
    IF i > Len(Filters) THEN st
    ELSE PlayAllFrom(
             i + 1,
             IF Filters[i] \in VideoRefs
                THEN Play(st, Filters[i], allowed[Filters[i]]) ELSE st,
             allowed)

\* App.tsx:64-83: the timer set on mount fires and runs playAllVideos.
PlayAllVideos ==
    /\ autoplayTimer
    /\ \E blocked \in SUBSET Asked(PlayAllFrom(1, Media, AllAllowed)) :
         LET st == PlayAllFrom(1, Media, Answer(blocked)) IN
         /\ paused' = st.paused
         /\ time' = st.time
         /\ requested' = st.requested
         /\ rejected' = st.rejected
         /\ seeked' = st.seeked
         \* a handle that starts playing fires `play`
         /\ pendingEvent' = (pendingEvent \/ (paused[listening] /\ ~st.paused[listening]))
    /\ autoplayTimer' = FALSE
    /\ passOf' = NoHandle
    /\ UNCHANGED <<selectedFilter, videoUrl, dom, listening>>
    /\ UNCHANGED playerVars

\* -------------------------------------------------------------------- sync
\* A loop body that corrects the time on a drift of the threshold or more.
SyncOneAtThreshold(st, f, T, isPaused, allowed) ==
    LET s1 == IF Abs(st.time[f] - T) >= DriftThreshold
                 THEN [st EXCEPT !.time[f] = T, !.seeked = @ \cup {f}]
                 ELSE st
    IN  IF isPaused /\ ~s1.paused[f] THEN [s1 EXCEPT !.paused[f] = TRUE]
        ELSE IF ~isPaused /\ s1.paused[f] THEN Play(s1, f, allowed)
        ELSE s1

\* A loop body that resumes a paused handle without looking at its time.
SyncOneResumeOnly(st, f, T, isPaused, allowed) ==
    IF ~isPaused /\ st.paused[f] THEN Play(st, f, allowed)
    ELSE LET s1 == IF Abs(st.time[f] - T) > DriftThreshold
                      THEN [st EXCEPT !.time[f] = T, !.seeked = @ \cup {f}]
                      ELSE st
         IN  IF isPaused /\ ~s1.paused[f] THEN [s1 EXCEPT !.paused[f] = TRUE]
             ELSE s1

\* App.tsx:99-118, the body of filters.forEach in syncVideos for one
\* non-active handle f; T and isPaused were read from the active handle.
SyncOne(st, f, T, isPaused, allowed) ==
    LET s1 == IF Abs(st.time[f] - T) > DriftThreshold
                 THEN [st EXCEPT !.time[f] = T, !.seeked = @ \cup {f}]
                 ELSE st
    IN  IF isPaused /\ ~s1.paused[f] THEN [s1 EXCEPT !.paused[f] = TRUE]
        ELSE IF ~isPaused /\ s1.paused[f] THEN Play(s1, f, allowed)
        ELSE s1

\* A pass that a rejected resume ends: the handles after it stay uncorrected.
SyncAbortOnReject(i, st, a, T, isPaused, allowed) ==
    IF i > Len(Filters) THEN st
    ELSE LET f == Filters[i]
             s1 == IF f \in VideoRefs /\ f # a
                      THEN SyncOne(st, f, T, isPaused, allowed[f]) ELSE st
         IN  IF s1.rejected # st.rejected THEN s1
             ELSE SyncAbortOnReject(i + 1, s1, a, T, isPaused, allowed)

\* App.tsx:98-119, filters.forEach from index i on, with a the active filter.
SyncFrom(i, st, a, T, isPaused, allowed) ==
    IF i > Len(Filters) THEN st
    ELSE LET f == Filters[i] IN
         SyncFrom(i + 1,
                  IF f \in VideoRefs /\ f # a
                     THEN SyncOne(st, f, T, isPaused, allowed[f]) ELSE st,
                  a, T, isPaused, allowed)

\* A pass that takes the first handle of the list as its authority.
SyncVideosToFirst(a, allowed) ==
    IF a \notin VideoRefs THEN Media
    ELSE SyncFrom(1, Media, Filters[1], time[Filters[1]], paused[Filters[1]],
                  allowed)

\* App.tsx:92-120, syncVideos of the effect run whose active handle is a.
SyncVideos(a, allowed) ==
    IF a \notin VideoRefs THEN Media
    ELSE SyncFrom(1, Media, a, time[a], paused[a], allowed)

\* The event loop dispatches the queued event of the listening handle to the
\* listeners of App.tsx:124-127: one correction pass.
DispatchEvent ==
    /\ pendingEvent
    /\ \E blocked \in SUBSET Asked(SyncVideos(listening, AllAllowed)) :
         LET st == SyncVideos(listening, Answer(blocked)) IN
         /\ time' = st.time
         /\ paused' = st.paused
         /\ requested' = st.requested
         /\ rejected' = st.rejected
         /\ seeked' = st.seeked
         \* a handle the pass seeks, pauses or resumes fires seeked, pause
         \* or play; only those of the listening handle reach a listener
         /\ pendingEvent' = (\/ listening \in st.seeked
                             \/ st.paused[listening] # paused[listening])
    /\ passOf' = listening
    /\ UNCHANGED <<selectedFilter, videoUrl, dom, listening, autoplayTimer>>
    /\ UNCHANGED playerVars

\* ------------------------------------------------------------------- media
NoPass ==
    /\ passOf' = NoHandle
    /\ requested' = {}
    /\ rejected' = {}
    /\ seeked' = {}

\* A playing handle advances by one step of the clock.
Tick(f) ==
    /\ ~paused[f]
    /\ time[f] < MaxTime
    /\ time' = [time EXCEPT ![f] = @ + 1]
    /\ NoPass
    /\ UNCHANGED <<selectedFilter, videoUrl, dom, paused, listening,
                   pendingEvent, autoplayTimer>>
    /\ UNCHANGED playerVars

\* The listening handle, while playing, fires its periodic timeupdate.
TimeUpdate ==
    /\ ~paused[listening]
    /\ ~pendingEvent
    /\ pendingEvent' = TRUE
    /\ NoPass
    /\ UNCHANGED <<selectedFilter, videoUrl, dom, time, paused, listening,
                   autoplayTimer>>
    /\ UNCHANGED playerVars

\* The native controls exist on the selected handle only (App.tsx:650).
UserPlay ==
    /\ dom[selectedFilter].controls
    /\ paused[selectedFilter]
    /\ paused' = [paused EXCEPT ![selectedFilter] = FALSE]
    /\ pendingEvent' = TRUE
    /\ NoPass
    /\ UNCHANGED <<selectedFilter, videoUrl, dom, time, listening, autoplayTimer>>
    /\ UNCHANGED playerVars

UserPause ==
    /\ dom[selectedFilter].controls
    /\ ~paused[selectedFilter]
    /\ paused' = [paused EXCEPT ![selectedFilter] = TRUE]
    /\ pendingEvent' = TRUE
    /\ NoPass
    /\ UNCHANGED <<selectedFilter, videoUrl, dom, time, listening, autoplayTimer>>
    /\ UNCHANGED playerVars

UserSeek(t) ==
    /\ dom[selectedFilter].controls
    /\ t # time[selectedFilter]
    /\ time' = [time EXCEPT ![selectedFilter] = t]
    /\ pendingEvent' = TRUE
    /\ NoPass
    /\ UNCHANGED <<selectedFilter, videoUrl, dom, paused, listening, autoplayTimer>>
    /\ UNCHANGED playerVars

\* ---------------------------------------------------------------- handlers
\* A switch whose commit leaves the listeners where they were.
HandleFilterChangeKeepsListeners(newFilter) ==
    /\ newFilter # selectedFilter
    /\ selectedFilter' = newFilter
    /\ dom' = Render(newFilter, videoUrl)
    /\ time' = CommitTime(dom, dom')
    /\ paused' = CommitPaused(dom, dom')
    /\ listening' = listening
    /\ pendingEvent' = pendingEvent
    /\ passOf' = NoHandle
    /\ requested' = {}
    /\ rejected' = {}
    /\ seeked' = {}
    /\ UNCHANGED <<videoUrl, autoplayTimer>>
    /\ UNCHANGED playerVars

\* App.tsx:145-148, handleFilterChange, with the commit it causes: the render
\* of App.tsx:646-660 and the sync effect's cleanup and re-subscription
\* (App.tsx:89-137, deps [selectedFilter, filters]).  The newly listening
\* handle may or may not have an event of its own already queued.
HandleFilterChange(newFilter) ==
    /\ newFilter # selectedFilter
    /\ selectedFilter' = newFilter
    /\ dom' = Render(newFilter, videoUrl)
    /\ time' = CommitTime(dom, dom')
    /\ paused' = CommitPaused(dom, dom')
    /\ listening' = newFilter
    /\ pendingEvent' \in BOOLEAN
    /\ NoPass
    /\ UNCHANGED <<videoUrl, autoplayTimer>>
    /\ UNCHANGED playerVars

\* App.tsx:159 and App.tsx:205, setVideoUrl(u), with the commit it causes.
\* The autoplay effect has deps [filters] (App.tsx:83) and filters is memoised
\* with [] (App.tsx:58): the effect does not run again.  The load algorithm
\* drops the queued events of a reloading element and queues a timeupdate if
\* its position was not 0.
SetVideoUrl(u) ==
    /\ u # videoUrl
    /\ videoUrl' = u
    /\ dom' = Render(selectedFilter, u)
    /\ time' = CommitTime(dom, dom')
    /\ paused' = CommitPaused(dom, dom')
    /\ pendingEvent' = IF listening \in Reloaded(dom, dom')
                          THEN time[listening] # 0 ELSE pendingEvent
    /\ NoPass
    /\ UNCHANGED <<selectedFilter, listening, autoplayTimer>>
    /\ UNCHANGED playerVars

\* ------------------------------------------------------------ specification
\* The state after the first commit: App.tsx:28, 41, 81 and the elements of
\* App.tsx:646-660 freshly mounted (position 0, paused).
SessionInit ==
    /\ selectedFilter = "none"
    /\ videoUrl = "default"
    /\ dom = Render("none", "default")
    /\ time = [f \in Handles |-> 0]
    /\ paused = [f \in Handles |-> TRUE]
    /\ listening = "none"
    /\ pendingEvent = FALSE
    /\ autoplayTimer = TRUE
    /\ passOf = NoHandle
    /\ requested = {}
    /\ rejected = {}
    /\ seeked = {}

Init == SessionInit /\ NoPlayer

Next ==
    \/ PlayAllVideos
    \/ DispatchEvent
    \/ TimeUpdate
    \/ UserPlay
    \/ UserPause
    \/ \E f \in Handles : Tick(f)
    \/ \E t \in 0..MaxTime : UserSeek(t)
    \/ \E g \in Handles : HandleFilterChange(g)
    \/ \E u \in VideoUrls : SetVideoUrl(u)

Spec == Init /\ [][Next]_vars

\* The session nobody touches after mount: only the mount timer, the event
\* loop and the media clocks act.  The event loop runs every queued task, the
\* timer fires, and a playing handle advances and reports its time.
UnattendedNext ==
    \/ PlayAllVideos
    \/ DispatchEvent
    \/ TimeUpdate
    \/ \E f \in Handles : Tick(f)

UnattendedSpec ==
    /\ Init
    /\ [][UnattendedNext]_vars
    /\ WF_vars(PlayAllVideos)
    /\ WF_vars(DispatchEvent)
    /\ WF_vars(TimeUpdate)
    /\ \A f \in Handles : WF_vars(Tick(f))

TypeOK ==
    /\ selectedFilter \in Handles
    /\ videoUrl \in VideoUrls
    /\ time \in [Handles -> 0..MaxTime]
    /\ paused \in [Handles -> BOOLEAN]
    /\ listening \in Handles
    /\ pendingEvent \in BOOLEAN
    /\ autoplayTimer \in BOOLEAN
    /\ passOf \in Handles \cup {NoHandle}
    /\ requested \subseteq Handles
    /\ rejected \subseteq requested
    /\ seeked \subseteq Handles

\* ------------------------------------------------ canvas player: applyFilter
\* Pixels of a frame in the model.
NumPixels == 2

\* part_003:3, type FilterType.
FilterTypes == {"none", "grayscale", "sepia", "inverted", "rio"}

\* part_003:58, `maskData[i] > 128`.
MaskThreshold == 128

\* Reading a typed array past its end yields undefined.
Undefined == -1

\* RGBA values a pixel of a frame takes in the model.
PixelSamples == {<<0, 0, 0, 0>>, <<200, 100, 50, 255>>, <<255, 255, 255, 128>>}

\* Red-channel values a mask pixel takes in the model: both sides of the
\* threshold of part_003:58 and the threshold itself.
MaskSamples == {0, 127, 128, 129}

\* Pixel counts of a mask: one less than, equal to and one more than the
\* frame's.
MaskPixels == (NumPixels - 1)..(NumPixels + 1)

RECURSIVE Flatten(_)
\* The data array of an ImageData: the pixels one after the other, RGBA.
Flatten(pixels) ==
    IF pixels = <<>> THEN <<>> ELSE Head(pixels) \o Flatten(Tail(pixels))

\* A mask is a grayscale image: the three colour channels carry the value.
MaskPixel(v) == <<v, v, v, 255>>

\* data[i] of a typed array, i counted from 0.
At(data, i) == IF i + 1 <= Len(data) THEN data[i + 1] ELSE Undefined

Min(a, b) == IF a < b THEN a ELSE b

\* Storing the number num/den into a Uint8ClampedArray: clamped to 0..255
\* and rounded to the nearest integer, a tie to the even one.  The fractions
\* of the filters are exact here; the program computes them in doubles.
ToUint8Clamped(num, den) ==
    LET q == num \div den
        r == num % den
        rounded == IF 2 * r > den \/ (2 * r = den /\ q % 2 = 1)
                      THEN q + 1 ELSE q
    IN  IF rounded > 255 THEN 255 ELSE IF rounded < 0 THEN 0 ELSE rounded

\* part_003:73, 86, 0.299 r + 0.587 g + 0.114 b, in thousandths.
Gray(r, g, b) == 299 * r + 587 * g + 114 * b

\* A switch in which `none` falls through to the grayscale case.
TransformNoneFallsThrough(filterType, r, g, b) ==
    LET gray == ToUint8Clamped(Gray(r, g, b), 1000)
    IN  <<gray, gray, gray>>

\* part_003:71-109, the switch on filterType and the stores of lines 111-113:
\* the colour channels of a background pixel.
Transform(filterType, r, g, b) ==
    CASE filterType = "grayscale" ->
           LET gray == ToUint8Clamped(Gray(r, g, b), 1000)
           IN  <<gray, gray, gray>>
      [] filterType = "sepia" ->
           <<ToUint8Clamped(393 * r + 769 * g + 189 * b, 1000),
             ToUint8Clamped(349 * r + 686 * g + 168 * b, 1000),
             ToUint8Clamped(272 * r + 534 * g + 131 * b, 1000)>>
      [] filterType = "inverted" -> <<255 - r, 255 - g, 255 - b>>
      [] filterType = "rio" ->
           \* lines 97-99 in ten-thousandths, lines 102-103 on top of them
           LET r1 == Min(2550000, 6 * Gray(r, g, b) + 7000 * r)
               g1 == Min(2550000, 4 * Gray(r, g, b) + 6000 * g)
               b1 == Min(2550000, 2 * Gray(r, g, b) + 4000 * b)
           IN  <<ToUint8Clamped(Min(25500000, 11 * r1), 100000),
                 ToUint8Clamped(Min(255000000, 105 * g1), 1000000),
                 ToUint8Clamped(b1, 10000)>>
      [] OTHER -> <<r, g, b>>

\* A comparison that admits the threshold itself.
IsPersonInclusive(v) == v # Undefined /\ v >= MaskThreshold

\* part_003:58, isPerson: `undefined > 128` is false.
IsPerson(v) == v # Undefined /\ v > MaskThreshold

\* A subject branch that writes an opaque pixel.
PixelOpaqueSubject(data, maskData, i, filterType) ==
    IF IsPerson(At(maskData, i))
      THEN <<data[i + 1], data[i + 2], data[i + 3], 255>>
      ELSE Transform(filterType, data[i + 1], data[i + 2], data[i + 3])
             \o <<data[i + 4]>>

\* part_003:57-115, the body of the loop for the pixel at offset i: the four
\* bytes written to filteredData[i..i+3].
Pixel(data, maskData, i, filterType) ==
    IF IsPerson(At(maskData, i))
      THEN <<data[i + 1], data[i + 2], data[i + 3], data[i + 4]>>
      ELSE Transform(filterType, data[i + 1], data[i + 2], data[i + 3])
             \o <<data[i + 4]>>

RECURSIVE FilterFrom(_, _, _, _)
\* part_003:57, for (let i = 0; i < data.length; i += 4).
FilterFrom(i, data, maskData, filterType) ==
    IF i >= Len(data) THEN <<>>
    ELSE Pixel(data, maskData, i, filterType)
           \o FilterFrom(i + 4, data, maskData, filterType)

\* A filter that writes its result into the array it reads.
ApplyFilterInPlace(data, maskData, filterType) ==
    LET out == FilterFrom(0, data, maskData, filterType)
    IN  [data |-> out, filtered |-> out]

\* part_003:47-119, applyFilter: the result is a new ImageData (line 52) and
\* imageData.data is only read.  `data` is the array of the argument after
\* the call, `filtered` the data of the returned image.
ApplyFilter(data, maskData, filterType) ==
    [data |-> data, filtered |-> FilterFrom(0, data, maskData, filterType)]

NotFiltered == <<"-">>

\* part_003:181-183 with the filter prop f: the frame on the canvas is read
\* back once and run through applyFilter for f.
Composite(f) ==
    /\ source # <<>>
    /\ filtered[f] = NotFiltered
    /\ LET res == ApplyFilter(imageData, mask, f)
       IN  /\ filtered' = [filtered EXCEPT ![f] = res.filtered]
           /\ imageData' = res.data
    /\ UNCHANGED <<mask, source>>

\* A frame of NumPixels pixels is on the canvas and a mask has been loaded,
\* of the frame's size or not; no filter has run.
FilterInit ==
    /\ SessionInit
    /\ NoMasks
    /\ NoServer
    /\ NoForm
    /\ NoLoop
    /\ \E px \in [1..NumPixels -> PixelSamples] :
         /\ imageData = Flatten(px)
         /\ source = Flatten(px)
    /\ \E n \in MaskPixels : \E m \in [1..n -> MaskSamples] :
         mask = Flatten([k \in 1..n |-> MaskPixel(m[k])])
    /\ filtered = [f \in FilterTypes |-> NotFiltered]

FilterNext ==
    \E f \in FilterTypes :
        Composite(f) /\ UNCHANGED <<vars, maskVars, serverVars, formVars, loopVars>>

FilterSpec == FilterInit /\ [][FilterNext]_<<vars, playerVars>>

\* ------------------------------------------------------------------ claims
NonActive(a) == Handles \ {a}

Drift(h, a) == Abs(time[h] - time[a])

\* C1: one correction pass run for the active handle at time T sets the time
\* of every non-active handle whose |time - T| is strictly greater than the
\* drift threshold to exactly T and leaves the time of every non-active
\* handle whose |time - T| is at most the threshold unchanged.
C1_DriftCorrection ==
    [][passOf' # NoHandle =>
         \A h \in NonActive(passOf') :
            time'[h] = IF Drift(h, passOf') > DriftThreshold
                          THEN time[passOf'] ELSE time[h]]_vars

\* A pass has forced one handle and left another one, which sits exactly at
\* the threshold, where it was.
C1_Witness ==
    /\ passOf # NoHandle
    /\ seeked # {}
    /\ \E k \in NonActive(passOf) \ seeked : Drift(k, passOf) = DriftThreshold

\* C2: after one correction pass every non-active handle that was playing
\* while the active handle is paused is paused, play() has been requested on
\* exactly the non-active handles that were paused while the active handle is
\* playing, whether or not some of these requests were rejected, and every
\* request that was not rejected has started its handle.
C2_PlayStateCorrection ==
    [][passOf' # NoHandle =>
         /\ \A h \in NonActive(passOf') :
               (paused[passOf'] /\ ~paused[h]) => paused'[h]
         /\ requested' =
               {h \in NonActive(passOf') : ~paused[passOf'] /\ paused[h]}
         /\ rejected' \subseteq requested'
         /\ \A h \in requested' \ rejected' : ~paused'[h]]_vars

\* A pass in which the resume of one handle was rejected and a handle later
\* in the filter list was resumed all the same.
C2_Witness ==
    /\ passOf # NoHandle
    /\ \E i, j \in 1..Len(Filters) :
          /\ i < j
          /\ Filters[i] \in rejected
          /\ Filters[j] \in requested \ rejected
          /\ ~paused[Filters[j]]

\* C3: when the selected filter changes from f to g, handle f just before the
\* switch and handle g just after it have equal paused flags and timestamps
\* that differ by less than the drift threshold.
C3_SwitchTransparency ==
    [][selectedFilter' # selectedFilter =>
         /\ paused'[selectedFilter'] = paused[selectedFilter]
         /\ Abs(time'[selectedFilter'] - time[selectedFilter]) < DriftThreshold]_vars

\* C4: whenever the active handle is paused and a non-active handle g is
\* playing, a correction pass eventually runs and pauses g.
C4_ActiveIsSourceOfTruth ==
    \A g \in Handles :
       (g # selectedFilter /\ paused[selectedFilter] /\ ~paused[g])
          ~> (passOf # NoHandle /\ paused[g])

\* C5: a change of the selected filter leaves the src, the currentTime and the
\* paused flag of every handle, and the video identity, unchanged.
C5_SelectionFrame ==
    [][selectedFilter' # selectedFilter =>
         /\ \A f \in Handles : dom'[f].src = dom[f].src
         /\ time' = time
         /\ paused' = paused
         /\ videoUrl' = videoUrl]_vars

\* A filter other than the initial one is selected and its handle is in the
\* middle of playback.
C5_Witness ==
    /\ selectedFilter # "none"
    /\ passOf = NoHandle
    /\ ~paused[selectedFilter]
    /\ time[selectedFilter] > 0
    /\ \E h \in Handles : time[h] # time[selectedFilter]

\* C6: the step that changes the selected filter runs a correction pass whose
\* authority is the newly active handle.
C6_AssertOnSwitch ==
    [][selectedFilter' # selectedFilter => passOf' = selectedFilter']_vars

\* C7: exactly one handle is visible, unmuted and shows controls, it is the
\* handle of selectedFilter, every other handle is hidden and muted, and
\* selectedFilter is one of the filters of the list.
C7_OneVisibleHandle ==
    /\ selectedFilter \in Handles
    /\ \A f \in Handles :
          /\ (dom[f].display = "block") = (f = selectedFilter)
          /\ dom[f].controls = (f = selectedFilter)
          /\ dom[f].muted = (f # selectedFilter)
    /\ Cardinality({f \in Handles : /\ dom[f].display = "block"
                                    /\ ~dom[f].muted
                                    /\ dom[f].controls}) = 1

\* After a switch and a change of identity the last filter of the list is the
\* one visible handle.
C7_Witness ==
    /\ selectedFilter = Filters[Len(Filters)]
    /\ videoUrl # "default"
    /\ dom[selectedFilter].display = "block"
    /\ ~dom[selectedFilter].muted
    /\ dom["none"].display = "none"
    /\ dom["none"].muted

\* C8: when the mount timer fires, play() is requested on every mounted
\* handle whatever subset of the requests is rejected; a handle whose request
\* was not rejected plays, a rejected one stays as it was, and nothing else
\* of the session changes.
C8_AutoplayAbsorbsRejections ==
    [][(autoplayTimer /\ ~autoplayTimer') =>
         /\ requested' = VideoRefs
         /\ rejected' \subseteq requested'
         /\ \A f \in requested' \ rejected' : ~paused'[f]
         /\ \A f \in rejected' : paused'[f] = paused[f]
         /\ time' = time
         /\ UNCHANGED <<selectedFilter, videoUrl, dom, listening>>]_vars

\* The autoplay of the first handle of the list was rejected and a later
\* handle plays.
C8_Witness ==
    /\ ~autoplayTimer
    /\ requested = VideoRefs
    /\ Filters[1] \in rejected
    /\ \E j \in 2..Len(Filters) : Filters[j] \notin rejected /\ ~paused[Filters[j]]

\* C9: a correction pass that runs while the active handle plays requests
\* resume on every paused non-active handle and forces the time of each of
\* them that drifted beyond the threshold to the active time; if no resume
\* is rejected, every handle plays within the threshold of the active handle
\* when the pass ends.
C9_LazyResync ==
    [][(passOf' # NoHandle /\ ~paused[passOf']) =>
         /\ requested' = {h \in NonActive(passOf') : paused[h]}
         /\ \A h \in requested' :
               Drift(h, passOf') > DriftThreshold => time'[h] = time[passOf']
         /\ rejected' = {} =>
               \A h \in Handles :
                  /\ ~paused'[h]
                  /\ Abs(time'[h] - time'[passOf']) <= DriftThreshold]_vars

\* A pass resumed a paused handle that had drifted beyond the threshold, no
\* resume was rejected and every handle plays.
C9_Witness ==
    /\ passOf # NoHandle
    /\ ~autoplayTimer
    /\ requested \cap seeked # {}
    /\ rejected = {}
    /\ \A h \in Handles : ~paused[h] /\ Drift(h, passOf) <= DriftThreshold

\* C10: when the video identity changes, every handle loads the variant of
\* the new identity and the autoplay timer is set again, as on mount.
C10_RebuildOnIdentityChange ==
    [][videoUrl' # videoUrl =>
         /\ \A f \in Handles : dom'[f].src = <<videoUrl', f>>
         /\ autoplayTimer']_vars

\* --------------------------------------------------- claims on applyFilter
\* Offsets of the pixels of the frame in its data array.
PixelOffsets == {4 * k : k \in 0..(NumPixels - 1)}

\* The four bytes of the pixel at offset i.
PixelAt(data, i) == SubSeq(data, i + 1, i + 4)

Composited == {f \in FilterTypes : filtered[f] # NotFiltered}

\* C11: every pixel that applyFilter classifies as subject has all four
\* channels of the output equal to the source frame's, whatever the filter.
C11_SubjectInvariance ==
    \A f \in Composited : \A i \in PixelOffsets :
        IsPerson(At(mask, i)) => PixelAt(filtered[f], i) = PixelAt(source, i)

\* A filter that changes colours has run on a frame with a subject pixel and
\* a background pixel it changed.
C11_Witness ==
    /\ "inverted" \in Composited
    /\ \E i \in PixelOffsets : IsPerson(At(mask, i))
    /\ \E i \in PixelOffsets :
         PixelAt(filtered["inverted"], i) # PixelAt(source, i)

\* C12: a pixel whose mask value equals the threshold is background, the
\* filter is applied to it; only a value strictly above the threshold makes
\* the pixel subject, its bytes copied.
C12_ThresholdBoundary ==
    \A f \in Composited : \A i \in PixelOffsets :
        /\ At(mask, i) = MaskThreshold =>
             PixelAt(filtered[f], i) =
               Transform(f, source[i + 1], source[i + 2], source[i + 3])
                 \o <<source[i + 4]>>
        /\ At(mask, i) > MaskThreshold =>
             PixelAt(filtered[f], i) = PixelAt(source, i)

\* The inverting filter has run on a frame with a pixel at the threshold,
\* which it changed, and a pixel just above it.
C12_Witness ==
    /\ "inverted" \in Composited
    /\ \E i \in PixelOffsets :
         /\ At(mask, i) = MaskThreshold
         /\ PixelAt(filtered["inverted"], i) # PixelAt(source, i)
    /\ \E i \in PixelOffsets : At(mask, i) = MaskThreshold + 1

\* C13: a pixel is subject exactly when its mask confidence v/255 exceeds
\* 0.5, so 128 is subject and 127 is background.  The inverting filter
\* changes every background pixel, so a pixel is subject iff its bytes
\* come out unchanged.  Stated for a mask of the frame's size.
C13_SubjectAboveHalf ==
    ("inverted" \in Composited /\ Len(mask) = Len(source)) =>
      \A i \in PixelOffsets :
          At(mask, i) # Undefined =>
            ((PixelAt(filtered["inverted"], i) = PixelAt(source, i))
               <=> (2 * At(mask, i) > 255))

\* C14: the output of a filter when all filters are composited against the
\* shared frame and mask is the output of compositing that filter alone, and
\* each pixel of it depends only on that pixel, its mask value and the
\* filter: it is what the loop body yields on the pixel taken by itself.
C14_MaskSharing ==
    \A f \in Composited :
        /\ Len(filtered[f]) = Len(source)
        /\ \A i \in PixelOffsets :
             PixelAt(filtered[f], i) =
               Pixel(PixelAt(source, i),
                     IF i + 4 <= Len(mask) THEN PixelAt(mask, i) ELSE <<>>,
                     0, f)

\* Every filter has been composited on a frame with a background pixel the
\* filters colour differently.
C14_Witness ==
    /\ Composited = FilterTypes
    /\ \E i \in PixelOffsets :
         /\ ~IsPerson(At(mask, i))
         /\ \A f, g \in FilterTypes :
              f # g => PixelAt(filtered[f], i) # PixelAt(filtered[g], i)

\* C15: the filter `none` returns the frame unchanged at every pixel, and on
\* a frame whose every pixel is subject every filter returns what `none`
\* returns.
C15_NoneIsIdentity ==
    /\ "none" \in Composited => filtered["none"] = source
    /\ (\A i \in PixelOffsets : IsPerson(At(mask, i))) =>
         \A f \in Composited :
             /\ filtered[f] = source
             /\ "none" \in Composited => filtered[f] = filtered["none"]

\* `none` has run on a frame with a coloured background pixel.
C15_Witness ==
    /\ "none" \in Composited
    /\ \E i \in PixelOffsets :
         /\ ~IsPerson(At(mask, i))
         /\ source[i + 1] # source[i + 2]

\* C16: compositing a frame with a mask of other dimensions fails with
\* DimensionMismatch and yields no output frame.
C16_DimensionMismatch ==
    Len(mask) # Len(source) =>
      \A f \in FilterTypes :
          filtered[f] \in {NotFiltered, <<"DimensionMismatch">>}

\* ------------------------------------- canvas player: loadMask, renderFrame
\* Last frame number of the video in the model; frames are 0..MaxFrame.
MaxFrame == 61

\* Mask loads started by seeked handlers that may be in flight together.
MaxSeekLoads == 1

\* Frames whose mask request fails: the server has no mask for them.
MissingMasks == {MaxFrame - 1}

\* part_003:149, `masksCache.current.size > 60`.
MaskCacheLimit == 60

\* Frames a seek lands on in the model.
SeekTargets == {MaxFrame - 1, MaxFrame}

Range(s) == {s[k] : k \in 1..Len(s)}

\* The pixels of a video frame in the model.
FrameOf(n) == Flatten([k \in 1..NumPixels |-> <<200, 100, 50, 255>>])

\* The mask the server has for a frame: the first pixel is subject.
MaskOf(n) ==
    Flatten([k \in 1..NumPixels |-> MaskPixel(IF k = 1 THEN 255 ELSE 0)])

\* A mask that marks every pixel as background.
BackgroundMask == Flatten([k \in 1..NumPixels |-> MaskPixel(0)])

\* part_003:172, ctx.drawImage(video, ...): the canvas shows frame n as it is.
Drawn(n) == [frame |-> n, applied |-> <<>>]

\* part_003:181-184 and 226-229, getImageData, applyFilter, putImageData: the
\* canvas content is run through applyFilter with the mask of frame m.
Put(c, m) == [c EXCEPT !.applied = Append(@, m)]

RECURSIVE PixelsFrom(_, _, _)
PixelsFrom(px, applied, f) ==
    IF applied = <<>> THEN px
    ELSE PixelsFrom(ApplyFilter(px, MaskOf(Head(applied)), f).filtered,
                    Tail(applied), f)

\* The pixels on the canvas.
CanvasPixels(c, f) == PixelsFrom(FrameOf(c.frame), c.applied, f)

\* part_003:148-153: evict the oldest key if the size exceeds the limit, then
\* set the key (a key already present keeps its place).
CacheMask(cache, n) ==
    LET kept == IF Len(cache) > MaskCacheLimit THEN Tail(cache) ELSE cache
    IN  IF n \in Range(kept) THEN kept ELSE Append(kept, n)

Remove(s, k) == SubSeq(s, 1, k - 1) \o SubSeq(s, k + 1, Len(s))

\* part_003:163-178 (and 191 before it): the scheduled callback runs
\* renderFrame on a playing video that is at frame n, draws the frame and
\* calls loadMask.  On a cache hit (lines 122-124) the rest of renderFrame,
\* lines 179-191, follows without another task in between.
RenderFrame(n) ==
    /\ renderPc = "scheduled"
    /\ n \in {videoFrame, videoFrame + 1}
    /\ n <= MaxFrame
    /\ videoFrame' = n
    /\ frameNumber' = n
    /\ IF n \in Range(masksCache)
         THEN /\ canvas' = Put(Drawn(n), n)
              /\ lastMask' = <<"cached", n>>
              /\ renderPc' = "scheduled"
         ELSE /\ canvas' = Drawn(n)
              /\ lastMask' = lastMask
              /\ renderPc' = "awaiting"
    /\ UNCHANGED <<filter, masksCache, seekLoads>>
    /\ UNCHANGED <<vars, filterVars, serverVars, formVars, loopVars>>

\* part_003:132-155 and 179-191: the mask arrives and decodes; it is cached,
\* the canvas is filtered with it and the next callback is scheduled.
RenderMaskLoaded ==
    /\ renderPc = "awaiting"
    /\ frameNumber \notin MissingMasks
    /\ masksCache' = CacheMask(masksCache, frameNumber)
    /\ canvas' = Put(canvas, frameNumber)
    /\ lastMask' = <<"loaded", frameNumber>>
    /\ renderPc' = "scheduled"
    /\ UNCHANGED <<filter, videoFrame, frameNumber, seekLoads>>
    /\ UNCHANGED <<vars, filterVars, serverVars, formVars, loopVars>>

\* part_003:130, 136, 156-159 and 179, 186-191: the request fails, answers
\* not-ok or the image does not decode; loadMask returns null, the `if (mask)`
\* block is skipped and the next callback is scheduled.
RenderMaskFailed ==
    /\ renderPc = "awaiting"
    /\ frameNumber \in MissingMasks
    /\ lastMask' = <<"failed", frameNumber>>
    /\ renderPc' = "scheduled"
    /\ UNCHANGED <<filter, masksCache, videoFrame, canvas, frameNumber,
                   seekLoads>>
    /\ UNCHANGED <<vars, filterVars, serverVars, formVars, loopVars>>

\* part_003:215-232, handleSeeked: draw the frame, call loadMask; on a cache
\* hit the `then` callback follows at once.
HandleSeeked(t) ==
    /\ videoFrame' = t
    /\ IF t \in Range(masksCache)
         THEN /\ canvas' = Put(Drawn(t), t)
              /\ lastMask' = <<"cached", t>>
              /\ seekLoads' = seekLoads
         ELSE /\ Len(seekLoads) < MaxSeekLoads
              /\ canvas' = Drawn(t)
              /\ lastMask' = lastMask
              /\ seekLoads' = Append(seekLoads, t)
    /\ UNCHANGED <<filter, masksCache, renderPc, frameNumber>>
    /\ UNCHANGED <<vars, filterVars, serverVars, formVars, loopVars>>

\* part_003:132-155 and 224-230: the mask a seeked handler waits for arrives.
SeekMaskLoaded(k) ==
    /\ k \in 1..Len(seekLoads)
    /\ seekLoads[k] \notin MissingMasks
    /\ masksCache' = CacheMask(masksCache, seekLoads[k])
    /\ canvas' = Put(canvas, seekLoads[k])
    /\ lastMask' = <<"loaded", seekLoads[k]>>
    /\ seekLoads' = Remove(seekLoads, k)
    /\ UNCHANGED <<filter, videoFrame, renderPc, frameNumber>>
    /\ UNCHANGED <<vars, filterVars, serverVars, formVars, loopVars>>

\* part_003:130, 136, 156-159 and 224-225: the load of a seeked handler fails
\* and the `then` callback skips its `if (mask)` block.
SeekMaskFailed(k) ==
    /\ k \in 1..Len(seekLoads)
    /\ seekLoads[k] \in MissingMasks
    /\ lastMask' = <<"failed", seekLoads[k]>>
    /\ seekLoads' = Remove(seekLoads, k)
    /\ UNCHANGED <<filter, masksCache, videoFrame, canvas, renderPc,
                   frameNumber>>
    /\ UNCHANGED <<vars, filterVars, serverVars, formVars, loopVars>>

\* The player is mounted with some filter, the video plays from frame 0 and
\* the play handler has called renderFrame (part_003:202).
MaskInit ==
    /\ SessionInit
    /\ NoFrame
    /\ NoServer
    /\ NoForm
    /\ NoLoop
    /\ filter \in FilterTypes
    /\ masksCache = <<>>
    /\ videoFrame = 0
    /\ canvas = Blank
    /\ renderPc = "scheduled"
    /\ frameNumber = 0
    /\ seekLoads = <<>>
    /\ lastMask = <<"-", 0>>

MaskNext ==
    \/ \E n \in 0..MaxFrame : RenderFrame(n)
    \/ RenderMaskLoaded
    \/ RenderMaskFailed
    \/ \E t \in SeekTargets : HandleSeeked(t)
    \/ \E k \in 1..MaxSeekLoads : SeekMaskLoaded(k)
    \/ \E k \in 1..MaxSeekLoads : SeekMaskFailed(k)

MaskSpec == MaskInit /\ [][MaskNext]_<<vars, playerVars>>

\* ------------------------------------------- claims on loadMask, renderFrame
\* C17: when the mask of a frame cannot be obtained the frame is rendered
\* with the background-only fallback: once the failed load has returned, the
\* canvas shows that frame with the filter applied to every pixel.
C17_BackgroundFallback ==
    (lastMask[1] = "failed" /\ canvas.frame = lastMask[2]) =>
      CanvasPixels(canvas, filter)
        = ApplyFilter(FrameOf(canvas.frame), BackgroundMask, filter).filtered

\* C18: the mask cache never holds more than 60 masks.
C18_CacheBound == Len(masksCache) <= MaskCacheLimit

\* -------------------------------------- server: cache manager and pipeline
\* The server's code is not part of the sources; the cache manager and the
\* batch pipeline follow sections 4.3, 4.4 and 5 of the specification.  The
\* requests are the ones the <video> elements of App.tsx:646-660 send.
\* A lookup that takes every registered artifact for an entry.
HasRegistered(k, f) == entries[k][f] # "absent"

\* A lookup that finds nothing.
HasNothing(k, f) == FALSE

\* has(key, filterId): an in-progress entry is not externally visible.
Has(k, f) == entries[k][f] = "ready"

\* A manager that starts a run for every miss.
MayStartOnEveryMiss(k) == TRUE

\* Pipeline runs of one key that may fail in the model.
MaxFailedRuns == 1

\* The per-key in-flight lock: a run may start only if none is in flight.
MayStart(k) == ~inFlight[k]

\* App.tsx:159, 205 and 646-660: setVideoUrl(u) changes the src of every
\* element; each of them drops the request it had and loads the new src.
SubmitUrl(u) ==
    /\ \E f \in Handles : requests[f].key # u
    /\ requests' = [f \in Handles |-> [pc |-> "idle", key |-> u]]
    /\ observed' = [f \in Handles |-> "-"]
    /\ UNCHANGED <<entries, inFlight, running, started, failedRuns>>
    /\ UNCHANGED <<vars, filterVars, maskVars, formVars, loopVars>>

\* App.tsx:646-660: the element of filter f requests
\* /get-processed-video?video_url=...&filter=f for the src it has.
SendRequest(f) ==
    /\ requests[f].pc = "idle"
    /\ requests' = [requests EXCEPT ![f].pc = "sent"]
    /\ UNCHANGED <<entries, inFlight, running, started, failedRuns, observed>>
    /\ UNCHANGED <<vars, filterVars, maskVars, formVars, loopVars>>

\* The server takes the request of f: a ready entry is served; on a miss the
\* request waits for the run in flight or, if there is none, takes the lock
\* and starts processAll for the key.
GetProcessedVideo(f) ==
    LET k == requests[f].key IN
    /\ requests[f].pc = "sent"
    /\ IF Has(k, f)
         THEN /\ requests' = [requests EXCEPT ![f].pc = "served"]
              /\ observed' = [observed EXCEPT ![f] = entries[k][f]]
              /\ UNCHANGED <<inFlight, running, started>>
         ELSE /\ requests' = [requests EXCEPT ![f].pc = "waiting"]
              /\ observed' = observed
              /\ IF MayStart(k)
                   THEN /\ inFlight' = [inFlight EXCEPT ![k] = TRUE]
                        /\ running' = [running EXCEPT ![k] = @ + 1]
                        /\ started' = [started EXCEPT ![k] = @ + 1]
                   ELSE UNCHANGED <<inFlight, running, started>>
    /\ UNCHANGED <<entries, failedRuns>>
    /\ UNCHANGED <<vars, filterVars, maskVars, formVars, loopVars>>

\* processAll, step 4: the artifact of filter g is finalized and registered
\* under (k, g); the entry is in progress.  The artifacts are registered in
\* the order of the filter list.
Register(k, g) ==
    /\ running[k] > 0
    /\ entries[k][g] = "absent"
    /\ \A i \in 1..Len(Filters) :
         Filters[i] = g =>
           \A j \in 1..(i - 1) : entries[k][Filters[j]] # "absent"
    /\ entries' = [entries EXCEPT ![k][g] = "in-progress"]
    /\ UNCHANGED <<inFlight, running, started, failedRuns, requests, observed>>
    /\ UNCHANGED <<vars, filterVars, maskVars, formVars, loopVars>>

\* A pipeline that marks each artifact ready as soon as it is registered.
MarkReadyRegistered(k) ==
    /\ running[k] > 0
    /\ \E g \in Handles : entries[k][g] = "in-progress"
    /\ entries' = [entries EXCEPT ![k] =
                     [g \in Handles |-> IF entries[k][g] = "in-progress"
                                          THEN "ready" ELSE entries[k][g]]]
    /\ UNCHANGED <<inFlight, running, started, failedRuns, requests, observed>>
    /\ UNCHANGED <<vars, filterVars, maskVars, formVars, loopVars>>

\* processAll, end of step 4: every artifact is registered; the entries of
\* the key become ready together and the lock is released.
MarkReady(k) ==
    /\ running[k] > 0
    /\ \A g \in Handles : entries[k][g] = "in-progress"
    /\ entries' = [entries EXCEPT ![k] = [g \in Handles |-> "ready"]]
    /\ inFlight' = [inFlight EXCEPT ![k] = FALSE]
    /\ running' = [running EXCEPT ![k] = @ - 1]
    /\ UNCHANGED <<started, failedRuns, requests, observed>>
    /\ UNCHANGED <<vars, filterVars, maskVars, formVars, loopVars>>

\* A request that waited is answered once its entry is visible.
Deliver(f) ==
    LET k == requests[f].key IN
    /\ requests[f].pc = "waiting"
    /\ Has(k, f)
    /\ requests' = [requests EXCEPT ![f].pc = "served"]
    /\ observed' = [observed EXCEPT ![f] = entries[k][f]]
    /\ UNCHANGED <<entries, inFlight, running, started, failedRuns>>
    /\ UNCHANGED <<vars, filterVars, maskVars, formVars, loopVars>>

\* processAll, failure semantics: decode or encode fails; the run aborts for
\* all filters, the partial outputs are discarded, no entry is marked ready,
\* the lock is released and the callers waiting on the key are told
\* ProcessingFailed.
AbortRun(k) ==
    /\ running[k] > 0
    /\ failedRuns[k] < MaxFailedRuns
    /\ entries' = [entries EXCEPT ![k] = [g \in Handles |-> "absent"]]
    /\ inFlight' = [inFlight EXCEPT ![k] = FALSE]
    /\ running' = [running EXCEPT ![k] = @ - 1]
    /\ failedRuns' = [failedRuns EXCEPT ![k] = @ + 1]
    /\ requests' = [f \in Handles |->
                      IF requests[f].key = k /\ requests[f].pc = "waiting"
                        THEN [requests[f] EXCEPT !.pc = "failed"]
                        ELSE requests[f]]
    /\ UNCHANGED <<started, observed>>
    /\ UNCHANGED <<vars, filterVars, maskVars, formVars, loopVars>>

CacheInit ==
    SessionInit /\ NoFrame /\ NoMasks /\ NoServer /\ NoForm /\ NoLoop

CacheNext ==
    \/ \E u \in VideoUrls : SubmitUrl(u)
    \/ \E f \in Handles : SendRequest(f)
    \/ \E f \in Handles : GetProcessedVideo(f)
    \/ \E k \in Keys : \E g \in Handles : Register(k, g)
    \/ \E k \in Keys : MarkReady(k)
    \/ \E k \in Keys : AbortRun(k)
    \/ \E f \in Handles : Deliver(f)

CacheSpec == CacheInit /\ [][CacheNext]_<<vars, playerVars>>

C20_NoPartialEntryServed ==
    \A f \in Handles :
        /\ observed[f] \in {"-", "ready"}
        /\ requests[f].pc = "served" => entries[requests[f].key][f] = "ready"

\* A request waits on an entry that is registered but not ready, and the
\* entries of another key have been served before.
C20_Witness ==
    \E f \in Handles :
        /\ requests[f].pc = "waiting"
        /\ entries[requests[f].key][f] = "in-progress"
        /\ \E j \in Keys \ {requests[f].key} :
             \A g \in Handles : entries[j][g] = "ready"

AllReady(k) == \A f \in Handles : entries[k][f] = "ready"

NoneReady(k) == \A f \in Handles : entries[k][f] # "ready"

\* C21: caching is all-or-nothing per run: the entries of a key are ready
\* all together or not at all, and a step in which a run fails leaves every
\* entry of the key absent and answers every caller waiting on the key with
\* a processing failure.
C21_AllOrNothing ==
    /\ [](\A k \in Keys : AllReady(k) \/ NoneReady(k))
    /\ [][\A k \in Keys :
            failedRuns'[k] # failedRuns[k] =>
              /\ \A f \in Handles : entries'[k][f] = "absent"
              /\ \A f \in Handles :
                   (requests[f].key = k /\ requests[f].pc = "waiting")
                     => requests'[f].pc = "failed"
              /\ \A f \in Handles : observed'[f] = observed[f]]_serverVars

\* A run failed after it had registered an artifact: a caller was told so
\* and nothing of the key is cached; and another key is fully ready.
C21_Witness ==
    \E k \in Keys :
        /\ failedRuns[k] = 1
        /\ started[k] = 1
        /\ \E f \in Handles : requests[f] = [pc |-> "failed", key |-> k]
        /\ \E j \in Keys \ {k} : AllReady(j)

\* C22: with every entry of a key ready, no step changes the entries of the
\* key or starts a run for it: repeated requests for cached pairs are served
\* from the cache as it is.
C22_Idempotence ==
    [][\A k \in Keys :
         AllReady(k) =>
           /\ entries'[k] = entries[k]
           /\ started'[k] = started[k]
           /\ running'[k] = running[k]
           /\ inFlight'[k] = inFlight[k]]_serverVars

\* Every element has been served from the ready entries of one key, some of
\* them by a request that arrived after the run, and one run was started.
C22_Witness ==
    \E k \in Keys :
        /\ AllReady(k)
        /\ \A f \in Handles : requests[f] = [pc |-> "served", key |-> k]
        /\ started[k] = 1
        /\ \E j \in Keys \ {k} : AllReady(j)

\* ------------------------------------------- further claims on the session
\* C23: between effect runs exactly the handle of selectedFilter carries the
\* sync listeners, also after any sequence of switches, and a correction
\* pass is only ever driven by an event of that handle.
C23_ListenersOnActiveOnly ==
    /\ listening = selectedFilter
    /\ passOf \in {NoHandle, selectedFilter}

\* After a switch away from the first handle a pass ran on an event of the
\* new active handle while the handle active before is playing.
C23_Witness ==
    /\ selectedFilter # Filters[1]
    /\ passOf = selectedFilter
    /\ ~paused[Filters[1]]

\* C24: a correction pass leaves the active handle's time and paused flag
\* unchanged, seeks and resumes non-active handles only, and what it does
\* to them queues no event that would run another pass.
C24_PassNeverWritesActive ==
    [][passOf' # NoHandle =>
         /\ time'[passOf'] = time[passOf']
         /\ paused'[passOf'] = paused[passOf']
         /\ passOf' \notin seeked' \cup requested'
         /\ ~pendingEvent']_vars

\* A pass has just sought and resumed non-active handles and no event is
\* queued.
C24_Witness ==
    /\ passOf # NoHandle
    /\ seeked # {}
    /\ requested \ rejected # {}
    /\ ~pendingEvent

\* -------------------------------------------------------- upload modal
\* Longest text typed into the URL field in the model.
MaxLen == 3

\* Upload requests that may be in flight together in the model.
MaxUploads == 2

\* App.tsx:180, 100 * 1024 * 1024 bytes.
MaxUploadSize == 104857600

\* Characters of the URL field: a blank and a letter.
UrlChars == {" ", "a"}

RECURSIVE Texts(_)
\* The texts of at most n characters.
Texts(n) ==
    IF n = 0 THEN {<<>>}
    ELSE Texts(n - 1)
           \cup {Append(t, c) : t \in {x \in Texts(n - 1) : Len(x) = n - 1},
                                c \in UrlChars}

UrlInputs == Texts(MaxLen)

\* consts.ts:9, the default video URL, and the URL an upload returns
\* (App.tsx:203-205, data.video_url), as texts.
DefaultVideoUrl == <<"d">>

UploadedVideoUrl == <<"u">>

\* Files a user may select: type (major, subtype) and size in bytes.
Files ==
    [type : {<<"video", "mp4">>, <<"image", "png">>},
     size : {1, MaxUploadSize - 1, MaxUploadSize, MaxUploadSize + 1}]

RECURSIVE TrimStart(_)
\* String.prototype.trimStart: the text without its leading blanks.
TrimStart(t) ==
    IF t # <<>> /\ Head(t) = " " THEN TrimStart(Tail(t)) ELSE t

RECURSIVE TrimEnd(_)
\* String.prototype.trimEnd: the text without its trailing blanks.
TrimEnd(t) ==
    IF t # <<>> /\ t[Len(t)] = " " THEN TrimEnd(SubSeq(t, 1, Len(t) - 1))
    ELSE t

\* A trim that leaves the trailing blanks in place.
TrimLeadingOnly(t) == TrimStart(t)

\* App.tsx:155, 159, urlInput.trim().
Trim(t) == TrimEnd(TrimStart(t))

\* App.tsx:174, file.type.startsWith('video/').
IsVideo(file) == file.type[1] = "video"

\* The commit of a new videoUrl: App.tsx:646-660 renders every element with
\* the new src.
CommitVideoUrl(u) ==
    /\ videoUrl' = u
    /\ dom' = Render(selectedFilter, u)
    /\ time' = CommitTime(dom, dom')
    /\ paused' = CommitPaused(dom, dom')
    /\ UNCHANGED <<selectedFilter, listening, pendingEvent, autoplayTimer,
                   passOf, requested, rejected, seeked>>

\* App.tsx:309, the upload icon.
OpenModal ==
    /\ ~isUploadModalOpen
    /\ isUploadModalOpen' = TRUE
    /\ formOp' = <<"open">>
    /\ UNCHANGED <<urlInput, isUploading, uploadError, uploads>>
    /\ UNCHANGED <<vars, filterVars, maskVars, serverVars, loopVars>>

\* App.tsx:445-450, the Cancel button of the URL tab.
CancelUrl ==
    /\ isUploadModalOpen
    /\ isUploadModalOpen' = FALSE
    /\ urlInput' = <<>>
    /\ uploadError' = "null"
    /\ formOp' = <<"cancel">>
    /\ UNCHANGED <<isUploading, uploads>>
    /\ UNCHANGED <<vars, filterVars, maskVars, serverVars, loopVars>>

\* App.tsx:426, onChange of the URL field.
SetUrlInput(t) ==
    /\ isUploadModalOpen
    /\ t # urlInput
    /\ urlInput' = t
    /\ formOp' = <<"type">>
    /\ UNCHANGED <<isUploadModalOpen, isUploading, uploadError, uploads>>
    /\ UNCHANGED <<vars, filterVars, maskVars, serverVars, loopVars>>

\* App.tsx:154-163, handleUrlSubmit.
HandleUrlSubmit ==
    /\ isUploadModalOpen
    /\ formOp' = <<"handleUrlSubmit", urlInput>>
    /\ IF Trim(urlInput) = <<>>
         THEN /\ uploadError' = "Please enter a valid URL"
              /\ UNCHANGED <<isUploadModalOpen, urlInput>>
              /\ UNCHANGED vars
         ELSE /\ CommitVideoUrl(Trim(urlInput))
              /\ isUploadModalOpen' = FALSE
              /\ urlInput' = <<>>
              /\ uploadError' = "null"
    /\ UNCHANGED <<isUploading, uploads>>
    /\ UNCHANGED <<filterVars, maskVars, serverVars, loopVars>>

\* App.tsx:169-199, handleFileUpload up to the await of fetch.
HandleFileUpload(file) ==
    /\ isUploadModalOpen
    /\ formOp' = <<"handleFileUpload", file>>
    /\ IF ~IsVideo(file)
         THEN /\ uploadError' = "Please select a valid video file"
              /\ UNCHANGED <<isUploading, uploads>>
         ELSE IF file.size > MaxUploadSize
         THEN /\ uploadError' = "File size must be less than 100MB"
              /\ UNCHANGED <<isUploading, uploads>>
         ELSE /\ Len(uploads) < MaxUploads
              /\ isUploading' = TRUE
              /\ uploadError' = "null"
              /\ uploads' = Append(uploads, file)
    /\ UNCHANGED <<isUploadModalOpen, urlInput>>
    /\ UNCHANGED <<vars, filterVars, maskVars, serverVars, loopVars>>

\* App.tsx:199-216: the response of upload k is ok and parses.
UploadSucceeds(k) ==
    /\ k \in 1..Len(uploads)
    /\ formOp' = <<"uploaded", uploads[k]>>
    /\ CommitVideoUrl(UploadedVideoUrl)
    /\ isUploadModalOpen' = FALSE
    /\ isUploading' = FALSE
    /\ uploads' = Remove(uploads, k)
    /\ UNCHANGED <<urlInput, uploadError>>
    /\ UNCHANGED <<filterVars, maskVars, serverVars, loopVars>>

\* App.tsx:199-201, 212-216: the request of upload k fails or the response
\* is not ok.
UploadFails(k) ==
    /\ k \in 1..Len(uploads)
    /\ formOp' = <<"uploadFailed", uploads[k]>>
    /\ uploadError' = "Failed to upload video. Please try again."
    /\ isUploading' = FALSE
    /\ uploads' = Remove(uploads, k)
    /\ UNCHANGED <<isUploadModalOpen, urlInput>>
    /\ UNCHANGED <<vars, filterVars, maskVars, serverVars, loopVars>>

\* The page after mount with the default video (App.tsx:41), modal closed.
FormInit ==
    /\ selectedFilter = "none"
    /\ videoUrl = DefaultVideoUrl
    /\ dom = Render("none", DefaultVideoUrl)
    /\ time = [f \in Handles |-> 0]
    /\ paused = [f \in Handles |-> TRUE]
    /\ listening = "none"
    /\ pendingEvent = FALSE
    /\ autoplayTimer = TRUE
    /\ passOf = NoHandle
    /\ requested = {}
    /\ rejected = {}
    /\ seeked = {}
    /\ NoFrame
    /\ NoMasks
    /\ NoServer
    /\ NoForm
    /\ NoLoop

FormNext ==
    \/ OpenModal
    \/ CancelUrl
    \/ \E t \in UrlInputs : SetUrlInput(t)
    \/ HandleUrlSubmit
    \/ \E file \in Files : HandleFileUpload(file)
    \/ \E k \in 1..MaxUploads : UploadSucceeds(k)
    \/ \E k \in 1..MaxUploads : UploadFails(k)

FormSpec == FormInit /\ [][FormNext]_<<vars, playerVars>>

\* ------------------------------------------------ claims on the upload modal
IsBlank(t) == \A i \in 1..Len(t) : t[i] = " "

\* t is s without the blanks at its two ends.
IsTrimOf(t, s) ==
    /\ t # <<>>
    /\ t[1] # " "
    /\ t[Len(t)] # " "
    /\ \E i \in 0..Len(s) :
         /\ i + Len(t) <= Len(s)
         /\ SubSeq(s, i + 1, i + Len(t)) = t
         /\ IsBlank(SubSeq(s, 1, i))
         /\ IsBlank(SubSeq(s, i + Len(t) + 1, Len(s)))

\* C25: handleUrlSubmit rejects the input exactly when it is empty after
\* trimming; a rejection sets an error and leaves videoUrl, the modal and
\* the text unchanged; otherwise videoUrl becomes the trimmed text, the
\* modal closes, the text and the error are cleared.
C25_UrlSubmit ==
    [][formOp'[1] = "handleUrlSubmit" =>
         IF IsBlank(urlInput)
           THEN /\ uploadError' # "null"
                /\ videoUrl' = videoUrl
                /\ isUploadModalOpen' = isUploadModalOpen
                /\ urlInput' = urlInput
           ELSE /\ IsTrimOf(videoUrl', urlInput)
                /\ ~isUploadModalOpen'
                /\ urlInput' = <<>>
                /\ uploadError' = "null"]_<<vars, formVars>>

\* A text with a blank at each end was submitted and its inner letter is the
\* video URL.
C25_Witness ==
    /\ formOp = <<"handleUrlSubmit", <<" ", "a", " ">>>>
    /\ videoUrl = <<"a">>
    /\ ~isUploadModalOpen

\* C26: handleFileUpload sends a request only for a video file under the
\* 100MB maximum; for any other file it sets an error, sends nothing and
\* leaves videoUrl and isUploading unchanged; a failed upload leaves
\* videoUrl and the modal unchanged and sets an error.
C26_FileValidation ==
    [][IF formOp'[1] = "handleFileUpload"
         THEN LET file == formOp'[2]
                  valid == IsVideo(file) /\ file.size < MaxUploadSize
              IN  IF valid
                    THEN TRUE
                    ELSE /\ uploadError' # "null"
                         /\ uploads' = uploads
                         /\ videoUrl' = videoUrl
                         /\ isUploading' = isUploading
         ELSE IF formOp'[1] = "uploadFailed"
         THEN /\ videoUrl' = videoUrl
              /\ isUploadModalOpen' = isUploadModalOpen
              /\ uploadError' # "null"
         ELSE TRUE]_<<vars, formVars>>

\* C27: isUploading is true exactly while an upload request is in flight.
C27_UploadingWhileInFlight == isUploading <=> (uploads # <<>>)

\* ------------------------------------------------- render loops of the player
\* Last frame the video reaches in the model.
MaxLoopFrame == 1

\* Play and pause events that may be queued together in the model.
MaxEvents == 3

\* renderFrame invocations that may be scheduled or in progress together in
\* the model.
MaxLoops == 2

\* Filters the prop takes in the model.
LoopFilters == {"none", "grayscale"}

\* part_003:191, requestAnimationFrame(renderFrame) by an invocation whose
\* closure holds filter g: animationFrameRef now names this callback and no
\* other.
Scheduled(g) == [pc |-> "scheduled", filter |-> g, frame |-> 0, ref |-> TRUE]

\* part_003:178, an invocation suspended in `await loadMask(n)`.
Awaiting(g, n) == [pc |-> "awaiting", filter |-> g, frame |-> n, ref |-> FALSE]

\* animationFrameRef.current is overwritten: it names none of these any more.
Unref(s) == [k \in 1..Len(s) |-> [s[k] EXCEPT !.ref = FALSE]]

RECURSIVE Cancel(_)
\* part_003:209-211 and 253-255, cancelAnimationFrame(animationFrameRef.current):
\* the callback the ref names, if it has not run yet, will not run.
Cancel(s) ==
    IF s = <<>> THEN <<>>
    ELSE IF Head(s).ref THEN Tail(s)
    ELSE <<Head(s)>> \o Cancel(Tail(s))

\* part_003:179-191 after loadMask returned a mask to an invocation with
\* closure filter g: composite, then schedule the next callback.
LoopComposite(g) == [used |-> g, prop |-> filter]

\* A callback that renders whether the video is paused or not.
RenderFrameCallWhilePaused(g, others) ==
    IF videoFrame \in Range(masksCache)
      THEN /\ renderFrames' = Append(Unref(others), Scheduled(g))
           /\ composited' = LoopComposite(g)
      ELSE /\ renderFrames' = Append(others, Awaiting(g, videoFrame))
           /\ composited' = composited

\* part_003:163-191, one call of renderFrame with closure filter g up to its
\* first suspension, given the other invocations `others`.  A paused video
\* returns at line 167; a cache hit (part_003:122-124) runs to line 191
\* within the task; a miss suspends in loadMask.
RenderFrameCall(g, others) ==
    IF videoPaused
      THEN /\ renderFrames' = others
           /\ composited' = composited
      ELSE IF videoFrame \in Range(masksCache)
      THEN /\ renderFrames' = Append(Unref(others), Scheduled(g))
           /\ composited' = LoopComposite(g)
      ELSE /\ renderFrames' = Append(others, Awaiting(g, videoFrame))
           /\ composited' = composited

Plays(s) == Len(SelectSeq(s, LAMBDA e : e = "play"))

\* part_003:40, video.play() by the parent or the user: the video plays and a
\* play event is queued.
VideoPlay ==
    /\ videoPaused
    /\ Len(mediaEvents) < MaxEvents
    /\ Len(renderFrames) + Plays(mediaEvents) < MaxLoops
    /\ videoPaused' = FALSE
    /\ mediaEvents' = Append(mediaEvents, "play")
    /\ UNCHANGED <<renderFrames, composited, pausedAwaiting>>
    /\ UNCHANGED <<vars, filterVars, maskVars, serverVars, formVars>>

\* part_003:41, video.pause(): the video is paused and a pause event is
\* queued.
VideoPause ==
    /\ ~videoPaused
    /\ Len(mediaEvents) < MaxEvents
    /\ videoPaused' = TRUE
    /\ mediaEvents' = Append(mediaEvents, "pause")
    /\ UNCHANGED <<renderFrames, composited, pausedAwaiting>>
    /\ UNCHANGED <<vars, filterVars, maskVars, serverVars, formVars>>

\* The video advances by a frame while it plays.
AdvanceFrame ==
    /\ ~videoPaused
    /\ videoFrame < MaxLoopFrame
    /\ videoFrame' = videoFrame + 1
    /\ UNCHANGED <<filter, masksCache, canvas, renderPc, frameNumber,
                   seekLoads, lastMask>>
    /\ UNCHANGED loopVars
    /\ UNCHANGED <<vars, filterVars, serverVars, formVars>>

\* part_003:199-203, handlePlay: calls renderFrame of the render whose effect
\* registered it, which holds the current filter prop.
HandlePlay ==
    /\ mediaEvents # <<>>
    /\ Head(mediaEvents) = "play"
    /\ mediaEvents' = Tail(mediaEvents)
    /\ RenderFrameCall(filter, renderFrames)
    /\ pausedAwaiting' = FALSE
    /\ UNCHANGED videoPaused
    /\ UNCHANGED <<vars, filterVars, maskVars, serverVars, formVars>>

\* part_003:206-212, handlePause.
HandlePause ==
    /\ mediaEvents # <<>>
    /\ Head(mediaEvents) = "pause"
    /\ mediaEvents' = Tail(mediaEvents)
    /\ renderFrames' = Cancel(renderFrames)
    /\ pausedAwaiting' =
         (\E k \in 1..Len(renderFrames) : renderFrames[k].pc = "awaiting")
    /\ UNCHANGED <<videoPaused, composited>>
    /\ UNCHANGED <<vars, filterVars, maskVars, serverVars, formVars>>

\* part_003:191 and 163-191: the animation frame callback k runs renderFrame.
RunCallback(k) ==
    /\ k \in 1..Len(renderFrames)
    /\ renderFrames[k].pc = "scheduled"
    /\ RenderFrameCall(renderFrames[k].filter, Remove(renderFrames, k))
    /\ UNCHANGED <<videoPaused, mediaEvents, pausedAwaiting>>
    /\ UNCHANGED <<vars, filterVars, maskVars, serverVars, formVars>>

\* part_003:132-155 and 179-191: the mask invocation k waits for arrives; it
\* is cached, composited with the invocation's filter and the next callback
\* is scheduled, paused or not.
LoopMaskLoaded(k) ==
    /\ k \in 1..Len(renderFrames)
    /\ renderFrames[k].pc = "awaiting"
    /\ masksCache' = CacheMask(masksCache, renderFrames[k].frame)
    /\ composited' = LoopComposite(renderFrames[k].filter)
    /\ renderFrames' = Append(Unref(Remove(renderFrames, k)),
                              Scheduled(renderFrames[k].filter))
    /\ UNCHANGED <<filter, videoFrame, canvas, renderPc, frameNumber,
                   seekLoads, lastMask>>
    /\ UNCHANGED <<videoPaused, mediaEvents, pausedAwaiting>>
    /\ UNCHANGED <<vars, filterVars, serverVars, formVars>>

\* part_003:130, 136, 156-159 and 179, 186-191: the load of invocation k
\* fails; nothing is composited and the next callback is scheduled.
LoopMaskFailed(k) ==
    /\ k \in 1..Len(renderFrames)
    /\ renderFrames[k].pc = "awaiting"
    /\ renderFrames' = Append(Unref(Remove(renderFrames, k)),
                              Scheduled(renderFrames[k].filter))
    /\ UNCHANGED <<videoPaused, mediaEvents, composited, pausedAwaiting>>
    /\ UNCHANGED <<vars, filterVars, maskVars, serverVars, formVars>>

\* part_003:27 and 194-259: the parent passes another filter.  The effect's
\* cleanup (part_003:247-256) removes the listeners and cancels the callback
\* the ref names; the effect registers listeners of the new render and calls
\* nothing else.
SetFilter(g) ==
    /\ g # filter
    /\ filter' = g
    /\ renderFrames' = Cancel(renderFrames)
    /\ UNCHANGED <<masksCache, videoFrame, canvas, renderPc, frameNumber,
                   seekLoads, lastMask>>
    /\ UNCHANGED <<videoPaused, mediaEvents, composited, pausedAwaiting>>
    /\ UNCHANGED <<vars, filterVars, serverVars, formVars>>

\* The player is mounted with some filter; the video is paused at frame 0
\* and nothing has been rendered.
LoopInit ==
    /\ SessionInit
    /\ NoFrame
    /\ NoServer
    /\ NoForm
    /\ NoLoop
    /\ filter \in LoopFilters
    /\ masksCache = <<>>
    /\ videoFrame = 0
    /\ canvas = Blank
    /\ renderPc = "unmounted"
    /\ frameNumber = 0
    /\ seekLoads = <<>>
    /\ lastMask = <<"-", 0>>

LoopNext ==
    \/ VideoPlay
    \/ VideoPause
    \/ AdvanceFrame
    \/ HandlePlay
    \/ HandlePause
    \/ \E k \in 1..MaxLoops : RunCallback(k)
    \/ \E k \in 1..MaxLoops : LoopMaskLoaded(k)
    \/ \E k \in 1..MaxLoops : LoopMaskFailed(k)
    \/ \E g \in LoopFilters : SetFilter(g)

LoopSpec == LoopInit /\ [][LoopNext]_<<vars, playerVars>>

\* The browser runs every animation frame callback and every mask request
\* settles.
FairLoopSpec ==
    /\ LoopSpec
    /\ WF_<<vars, playerVars>>(\E k \in 1..MaxLoops : RunCallback(k))
    /\ WF_<<vars, playerVars>>(\E k \in 1..MaxLoops :
                                  LoopMaskLoaded(k) \/ LoopMaskFailed(k))

\* ---------------------------------------------- claims on the render loops
\* C28: at most one render loop is active at any time: never more than one
\* renderFrame invocation is scheduled or in progress.
C28_OneRenderLoop == Len(renderFrames) <= 1

\* C29: when the filter prop changes while the video plays and renders,
\* rendering continues without a new play event, and every frame composited
\* from then on uses the new filter.
C29_FilterChange ==
    [][/\ (filter' # filter /\ ~videoPaused /\ renderFrames # <<>>)
            => renderFrames' # <<>>
       /\ (composited' # composited) => composited'.used = filter'
      ]_<<maskVars, loopVars>>

Stopped == renderFrames = <<>>

\* C30: once a pause has been handled and no play follows, eventually no
\* renderFrame invocation is scheduled or in progress.
C30_LoopStops ==
    [](videoPaused /\ mediaEvents = <<>> => <>(Stopped \/ ~videoPaused))

\* The pause handler ran while a renderFrame was suspended in loadMask, and
\* the loop has stopped since.
C30_Witness ==
    /\ pausedAwaiting
    /\ videoPaused
    /\ mediaEvents = <<>>
    /\ Stopped

====
